---- MODULE Spec2Model ----
(***************************************************************************)
(* Model of src/src/sort.rs: bsearch, aprox_bsearch and                    *)
(* sorted_array_insert over a caller-owned, pre-allocated u8 array, with   *)
(* the comparator u8_cmp and the element move u8_cp of the test module     *)
(* injected, and the caller's write-back (array[index] = key,              *)
(* length += added) that the tests perform after every call.               *)
(***************************************************************************)
EXTENDS Integers, Sequences, FiniteSets, TLC

\* Bounds of the model.
MaxCap == 4        \* largest pre-allocated array
MaxKey == 3        \* keys and slot values range over 0..MaxKey
UsizeBits == 16    \* width of usize in the model

Keys == 0..MaxKey
UsizeMod == 2^UsizeBits

\* The sentinel the tests pass: the largest usize (0xFFFF_FFFF on 32 bits).
not_allocated_value == UsizeMod - 1

\* usize arithmetic, wrapping at the width of usize.
usize_add(a, b) == (a + b) % UsizeMod
usize_sub(a, b) == (a - b + UsizeMod) % UsizeMod
usize_shr1(a) == a \div 2

\* tests::u8_cmp: the key against the element at data[index].
u8_cmp(key, data, index) ==
    IF key = data[index] THEN "Equal"
    ELSE IF key > data[index] THEN "Greater"
    ELSE "Less"

\* tests::u8_cp: *dest = *src.
u8_cp(data, src_index, dest_index) ==
    [data EXCEPT ![dest_index] = data[src_index]]

\* ---------------------------------------------------------------- bsearch

\* The while loop of bsearch; probes collects the indices compared.
RECURSIVE bsearch_loop(_, _, _, _, _, _)
bsearch_loop(key, data, left, s, not_found_value, probes) ==
    IF s > 0 THEN
        LET idx == usize_add(left, usize_shr1(s))
            r == u8_cmp(key, data, idx)
        IN  IF r = "Equal"
            THEN [index |-> idx, probes |-> Append(probes, idx)]
            ELSE IF r = "Greater"
            THEN bsearch_loop(key, data, usize_add(idx, 1),
                              usize_shr1(usize_sub(s, 1)),
                              not_found_value, Append(probes, idx))
            ELSE bsearch_loop(key, data, left, usize_shr1(s),
                              not_found_value, Append(probes, idx))
    ELSE [index |-> not_found_value, probes |-> probes]

\* A conventional lower-middle probe: same answers, another probe sequence.
RECURSIVE bsearch_lowmid_loop(_, _, _, _, _, _)
bsearch_lowmid_loop(key, data, left, s, not_found_value, probes) ==
    IF s > 0 THEN
        LET h == usize_shr1(usize_sub(s, 1))
            idx == usize_add(left, h)
            r == u8_cmp(key, data, idx)
        IN  IF r = "Equal"
            THEN [index |-> idx, probes |-> Append(probes, idx)]
            ELSE IF r = "Greater"
            THEN bsearch_lowmid_loop(key, data, usize_add(idx, 1),
                                     usize_sub(usize_sub(s, h), 1),
                                     not_found_value, Append(probes, idx))
            ELSE bsearch_lowmid_loop(key, data, left, h,
                                     not_found_value, Append(probes, idx))
    ELSE [index |-> not_found_value, probes |-> probes]

\* bsearch with left = idx in place of left = idx + 1.
RECURSIVE bsearch_keepleft_loop(_, _, _, _, _, _)
bsearch_keepleft_loop(key, data, left, s, not_found_value, probes) ==
    IF s > 0 THEN
        LET idx == usize_add(left, usize_shr1(s))
            r == u8_cmp(key, data, idx)
        IN  IF r = "Equal"
            THEN [index |-> idx, probes |-> Append(probes, idx)]
            ELSE IF r = "Greater"
            THEN bsearch_keepleft_loop(key, data, idx,
                                       usize_shr1(usize_sub(s, 1)),
                                       not_found_value, Append(probes, idx))
            ELSE bsearch_keepleft_loop(key, data, left, usize_shr1(s),
                                       not_found_value, Append(probes, idx))
    ELSE [index |-> not_found_value, probes |-> probes]

bsearch_lowmid(key, data, data_length, not_found_value) ==
    bsearch_lowmid_loop(key, data, 0, data_length, not_found_value, <<>>)

bsearch_keepleft(key, data, data_length, not_found_value) ==
    bsearch_keepleft_loop(key, data, 0, data_length, not_found_value, <<>>)

bsearch(key, data, data_length, not_found_value) ==
    bsearch_loop(key, data, 0, data_length, not_found_value, <<>>)

\* ---------------------------------------------------------- aprox_bsearch

\* The while loop of aprox_bsearch; idx is the last index probed.
RECURSIVE aprox_loop(_, _, _, _, _, _)
aprox_loop(key, data, left, s, idx, probes) ==
    IF s > 0 THEN
        LET i == usize_add(left, usize_shr1(s))
            r == u8_cmp(key, data, i)
        IN  IF r = "Equal"
            THEN [exact_value_found |-> TRUE, idx |-> i,
                  probes |-> Append(probes, i)]
            ELSE IF r = "Greater"
            THEN aprox_loop(key, data, usize_add(i, 1),
                            usize_shr1(usize_sub(s, 1)), i, Append(probes, i))
            ELSE aprox_loop(key, data, left, usize_shr1(s), i,
                            Append(probes, i))
    ELSE [exact_value_found |-> FALSE, idx |-> idx, probes |-> probes]

\* aprox_bsearch without the final re-comparison: the last probe is returned.
aprox_bsearch_no_recompare(key, data, data_length) ==
    LET l == aprox_loop(key, data, 0, data_length, 0, <<>>)
    IN  IF l.exact_value_found
        THEN [result |-> "ExactMatchIndex", index |-> l.idx,
              probes |-> l.probes, recompare |-> <<>>]
        ELSE IF l.idx >= data_length
        THEN [result |-> "OutsideIndex", index |-> l.idx,
              probes |-> l.probes, recompare |-> <<>>]
        ELSE [result |-> "AproxMatch", index |-> l.idx,
              probes |-> l.probes, recompare |-> <<>>]

\* aprox_bsearch whose Greater arm returns idx in place of idx + 1.
aprox_bsearch_greater_same(key, data, data_length) ==
    LET l == aprox_loop(key, data, 0, data_length, 0, <<>>)
    IN  IF l.exact_value_found
        THEN [result |-> "ExactMatchIndex", index |-> l.idx,
              probes |-> l.probes, recompare |-> <<>>]
        ELSE IF l.idx >= data_length
        THEN [result |-> "OutsideIndex", index |-> l.idx,
              probes |-> l.probes, recompare |-> <<>>]
        ELSE LET r == u8_cmp(key, data, l.idx)
             IN  [result |-> IF r = "Equal" THEN "ExactMatchIndex"
                             ELSE "AproxMatch",
                  index |-> l.idx,
                  probes |-> l.probes, recompare |-> <<l.idx>>]

aprox_bsearch(key, data, data_length) ==
    LET l == aprox_loop(key, data, 0, data_length, 0, <<>>)
    IN  IF l.exact_value_found
        THEN [result |-> "ExactMatchIndex", index |-> l.idx,
              probes |-> l.probes, recompare |-> <<>>]
        ELSE IF l.idx >= data_length
        THEN [result |-> "OutsideIndex", index |-> l.idx,
              probes |-> l.probes, recompare |-> <<>>]
        ELSE LET r == u8_cmp(key, data, l.idx)
             IN  [result |-> IF r = "Equal" THEN "ExactMatchIndex"
                             ELSE "AproxMatch",
                  index |-> IF r = "Greater" THEN usize_add(l.idx, 1)
                            ELSE l.idx,
                  probes |-> l.probes, recompare |-> <<l.idx>>]

\* ---------------------------------------------------- sorted_array_insert

\* `data_original_length + 1 <= data_capacity` with `<=` applied to the
\* length itself.
has_room_off_by_one(data_original_length, data_capacity) ==
    data_original_length <= data_capacity

\* The capacity test of both non-exact arms.
has_room(data_original_length, data_capacity) ==
    usize_add(data_original_length, 1) <= data_capacity

\* sorted_array_insert that opens a slot on an exact match as well.
insert_decision_shift_on_exact(key, data, data_original_length, data_capacity) ==
    LET a == aprox_bsearch(key, data, data_original_length)
    IN  IF a.result = "OutsideIndex"
        THEN IF has_room(data_original_length, data_capacity)
             THEN [aprox |-> a, res |-> "Ok", index |-> a.index,
                   added |-> 1, count |-> 0]
             ELSE [aprox |-> a, res |-> "ArrayCapacityExceeded",
                   index |-> not_allocated_value, added |-> 0, count |-> 0]
        ELSE IF has_room(data_original_length, data_capacity)
             THEN [aprox |-> a, res |-> "Ok", index |-> a.index,
                   added |-> 1,
                   count |-> usize_sub(data_original_length, a.index)]
             ELSE [aprox |-> a, res |-> "ArrayCapacityExceeded",
                   index |-> not_allocated_value, added |-> 0, count |-> 0]

\* sorted_array_insert up to its shift loop: the search, the match on its
\* result, the capacity test and the number of elements to move.
insert_decision(key, data, data_original_length, data_capacity) ==
    LET a == aprox_bsearch(key, data, data_original_length)
    IN  IF a.result = "ExactMatchIndex"
        THEN [aprox |-> a, res |-> "Ok", index |-> a.index,
              added |-> 0, count |-> 0]
        ELSE IF a.result = "AproxMatch"
        THEN IF has_room(data_original_length, data_capacity)
             THEN [aprox |-> a, res |-> "Ok", index |-> a.index,
                   added |-> 1,
                   count |-> usize_sub(data_original_length, a.index)]
             ELSE [aprox |-> a, res |-> "ArrayCapacityExceeded",
                   index |-> not_allocated_value, added |-> 0, count |-> 0]
        ELSE IF has_room(data_original_length, data_capacity)
             THEN [aprox |-> a, res |-> "Ok", index |-> a.index,
                   added |-> 1, count |-> 0]
             ELSE [aprox |-> a, res |-> "ArrayCapacityExceeded",
                   index |-> not_allocated_value, added |-> 0, count |-> 0]

\* ------------------------------------------------------------- the state

VARIABLES
    buf,            \* the caller's array: slot index -> value, 0..cap-1
    length,         \* the caller's count of used slots
    cap,            \* the array's capacity
    pc,             \* "idle", "shift" (inside the shift loop), "returned"
    key,            \* the key of the call in progress
    aprox,          \* what aprox_bsearch returned to the call in progress
    ret,            \* what sorted_array_insert returned
    count,          \* the shift loop's count
    target_index,   \* the shift loop's target_index
    moves,          \* the copy_f calls of the call in progress, in order
    pre,            \* the array when the call in progress began
    written,        \* the keys the caller holds in the array
    obs             \* the last bsearch of the array as it is now

vars == <<buf, length, cap, pc, key, aprox, ret, count, target_index,
          moves, pre, written, obs>>

NoAprox == [result |-> "None", index |-> 0, probes |-> <<>>, recompare |-> <<>>]
NoRet == [res |-> "None", index |-> 0, added |-> 0]
NoObs == [key |-> 0, not_found_value |-> 0, index |-> 0, probes |-> <<>>,
          valid |-> FALSE]

Elems(data, n) == {data[i] : i \in 0..(n - 1)}

InitCall ==
    /\ pc = "idle"
    /\ key = 0
    /\ aprox = NoAprox
    /\ ret = NoRet
    /\ count = 0
    /\ target_index = 0
    /\ moves = <<>>
    /\ pre = buf
    /\ obs = NoObs

\* A pre-allocated, zero-filled array with no element in use.
Init ==
    /\ cap \in 0..MaxCap
    /\ buf = [i \in 0..(cap - 1) |-> 0]
    /\ length = 0
    /\ written = {}
    /\ InitCall

\* Any length up to the capacity and any values, in any order, in the used
\* slots; the unused slots hold the 0x00 the tests pre-allocate them with.
InitAny ==
    /\ cap \in 0..MaxCap
    /\ buf \in [0..(cap - 1) -> Keys]
    /\ length \in 0..cap
    /\ \A i \in length..(cap - 1) : buf[i] = 0
    /\ written = Elems(buf, length)
    /\ InitCall

\* sorted_array_insert(k, ...) from its entry to its first copy_f call, or
\* to its return when nothing is to be moved.
Call(k) ==
    /\ pc = "idle"
    /\ LET d == insert_decision(k, buf, length, cap)
       IN  /\ key' = k
           /\ aprox' = d.aprox
           /\ count' = d.count
           /\ IF d.count > 0
              THEN /\ pc' = "shift"
                   /\ target_index' = usize_sub(length, 1)
                   /\ ret' = NoRet
              ELSE /\ pc' = "returned"
                   /\ target_index' = 0
                   /\ ret' = [res |-> d.res, index |-> d.index,
                              added |-> d.added]
    /\ pre' = buf
    /\ moves' = <<>>
    /\ obs' = NoObs
    /\ UNCHANGED <<buf, length, cap, written>>

\* The shift loop with target_index decremented before count is tested.
MoveStep_decrement_first ==
    /\ pc = "shift"
    /\ buf' = u8_cp(buf, target_index, usize_add(target_index, 1))
    /\ moves' = Append(moves, <<target_index, usize_add(target_index, 1)>>)
    /\ count' = usize_sub(count, 1)
    /\ target_index' = usize_sub(target_index, 1)
    /\ IF count' = 0
       THEN /\ pc' = "returned"
            /\ ret' = [res |-> "Ok", index |-> aprox.index, added |-> 1]
       ELSE /\ pc' = "shift"
            /\ ret' = ret
    /\ obs' = NoObs
    /\ UNCHANGED <<length, cap, key, aprox, pre, written>>

\* The shift loop walking up from the insertion index instead of down from
\* the tail.
MoveStep_ascending ==
    /\ pc = "shift"
    /\ LET src == usize_add(aprox.index, Len(moves))
       IN  /\ buf' = u8_cp(buf, src, usize_add(src, 1))
           /\ moves' = Append(moves, <<src, usize_add(src, 1)>>)
    /\ count' = usize_sub(count, 1)
    /\ IF count' = 0
       THEN /\ pc' = "returned"
            /\ ret' = [res |-> "Ok", index |-> aprox.index, added |-> 1]
       ELSE /\ pc' = "shift"
            /\ ret' = ret
    /\ obs' = NoObs
    /\ UNCHANGED <<length, cap, key, aprox, target_index, pre, written>>

\* One pass of the shift loop: one copy_f call, then count and target_index;
\* the pass that brings count to 0 returns.
MoveStep ==
    /\ pc = "shift"
    /\ buf' = u8_cp(buf, target_index, usize_add(target_index, 1))
    /\ moves' = Append(moves, <<target_index, usize_add(target_index, 1)>>)
    /\ count' = usize_sub(count, 1)
    /\ IF count' = 0
       THEN /\ pc' = "returned"
            /\ target_index' = target_index
            /\ ret' = [res |-> "Ok", index |-> aprox.index, added |-> 1]
       ELSE /\ pc' = "shift"
            /\ target_index' = usize_sub(target_index, 1)
            /\ ret' = ret
    /\ obs' = NoObs
    /\ UNCHANGED <<length, cap, key, aprox, pre, written>>

\* What every test does with the result: on Ok the key is written at the
\* returned index and the added count goes onto the length.
CallerWrite ==
    /\ pc = "returned"
    /\ IF ret.res = "Ok"
       THEN /\ buf' = [buf EXCEPT ![ret.index] = key]
            /\ length' = length + ret.added
            /\ written' = written \cup {key}
       ELSE UNCHANGED <<buf, length, written>>
    /\ pc' = "idle"
    /\ key' = 0
    /\ aprox' = NoAprox
    /\ ret' = NoRet
    /\ count' = 0
    /\ target_index' = 0
    /\ moves' = <<>>
    /\ pre' = buf'
    /\ obs' = NoObs
    /\ UNCHANGED cap

\* bsearch(k, ...) over the array as it is, whatever the insert in progress.
Bsearch(k, nfv) ==
    /\ LET b == bsearch(k, buf, length, nfv)
       IN  obs' = [key |-> k, not_found_value |-> nfv, index |-> b.index,
                   probes |-> b.probes, valid |-> TRUE]
    /\ UNCHANGED <<buf, length, cap, pc, key, aprox, ret, count,
                   target_index, moves, pre, written>>

Next ==
    \/ \E k \in Keys : Call(k)
    \/ MoveStep
    \/ CallerWrite
    \/ \E k \in Keys : \E nfv \in {length, not_allocated_value} : Bsearch(k, nfv)

\* The caller starts from an empty array.
Spec == Init /\ [][Next]_vars

\* The caller starts from any array.
SpecAny == InitAny /\ [][Next]_vars

\* ------------------------------------------------------------ the claims

SortedAsc(data, n) ==
    \A i, j \in 0..(n - 1) : i < j => data[i] <= data[j]

StrictAsc(data, n) ==
    \A i, j \in 0..(n - 1) : i < j => data[i] < data[j]

\* A sorted_array_insert call has begun and the caller has not yet used its
\* result.
InCall == pc \in {"shift", "returned"}

\* C1: over an array sorted ascending, with a sentinel >= length, bsearch
\* returns an index below length whose element compares Equal to the key
\* when there is one, and the sentinel exactly when there is none.
C1_ExactSearch ==
    (obs.valid /\ SortedAsc(buf, length) /\ obs.not_found_value >= length) =>
        LET present == obs.key \in Elems(buf, length)
        IN  /\ present => /\ obs.index < length
                          /\ u8_cmp(obs.key, buf, obs.index) = "Equal"
            /\ present <=> obs.index # obs.not_found_value

C1_Witness ==
    /\ obs.valid
    /\ SortedAsc(buf, length)
    /\ length >= 3
    /\ obs.key \in Elems(buf, length)
    /\ obs.not_found_value = length
    /\ Len(obs.probes) >= 2
    /\ obs.index < length

\* C2: over a sorted array aprox_bsearch answers ExactMatchIndex with an
\* index holding the key when the key is present; when it is absent the
\* index it returns is the insertion point: every element before it is less
\* than the key, every element from it up to length is greater.
C2_InsertionPoint ==
    (InCall /\ SortedAsc(pre, length)) =>
        IF key \in Elems(pre, length)
        THEN /\ aprox.result = "ExactMatchIndex"
             /\ aprox.index < length
             /\ pre[aprox.index] = key
        ELSE /\ aprox.result \in {"AproxMatch", "OutsideIndex"}
             /\ aprox.index <= length
             /\ \A i \in 0..(length - 1) :
                    /\ i < aprox.index => pre[i] < key
                    /\ i >= aprox.index => pre[i] > key

C2_Witness ==
    /\ InCall
    /\ SortedAsc(pre, length)
    /\ key \notin Elems(pre, length)
    /\ length >= 3
    /\ aprox.recompare # <<>>
    /\ aprox.index = aprox.recompare[1] + 1
    /\ aprox.index < length

\* C3: starting from the empty array, after any sequence of calls each
\* followed by the caller's write, the used part of the array is strictly
\* ascending, holds exactly the keys written and is no longer than the
\* capacity; and whenever a call on a strictly ascending array returns Ok,
\* writing the key at the returned index and adding the added count leaves
\* the array strictly ascending.
C3_RoundTripSorted ==
    /\ pc = "idle" =>
           /\ StrictAsc(buf, length)
           /\ length <= cap
           /\ Elems(buf, length) = written
           /\ Cardinality(written) = length
    /\ (pc = "returned" /\ ret.res = "Ok" /\ StrictAsc(pre, length)) =>
           /\ length + ret.added <= cap
           /\ ret.index < length + ret.added
           /\ StrictAsc([buf EXCEPT ![ret.index] = key], length + ret.added)

C3_Witness ==
    /\ pc = "returned"
    /\ ret.res = "Ok"
    /\ ret.added = 1
    /\ StrictAsc(pre, length)
    /\ length >= 3
    /\ Len(moves) >= 2

\* C4: with length = capacity and a key the sorted array does not hold,
\* sorted_array_insert returns ArrayCapacityExceeded with the not-allocated
\* sentinel and 0 added, calls copy_f not once and leaves every slot as it
\* was.
C4_CapacityBoundary ==
    (InCall /\ SortedAsc(pre, length) /\ length = cap
            /\ key \notin Elems(pre, length)) =>
        /\ pc = "returned"
        /\ ret = [res |-> "ArrayCapacityExceeded",
                  index |-> not_allocated_value, added |-> 0]
        /\ moves = <<>>
        /\ buf = pre

C4_Witness ==
    /\ pc = "returned"
    /\ SortedAsc(pre, length)
    /\ length = cap
    /\ length >= 2
    /\ key \notin Elems(pre, length)
    /\ aprox.result = "AproxMatch"
    /\ aprox.index > 0
    /\ aprox.index < length
    /\ ret.res = "ArrayCapacityExceeded"

\* C5: for a key the sorted array already holds, whatever the capacity,
\* sorted_array_insert returns Ok with 0 added and an index holding the key,
\* calls copy_f not once and leaves the array as it was; the same call made
\* again on the array it left returns the same result and index.
C5_PresentKeyIdempotent ==
    (InCall /\ SortedAsc(pre, length) /\ key \in Elems(pre, length)) =>
        /\ pc = "returned"
        /\ ret.res = "Ok"
        /\ ret.added = 0
        /\ ret.index < length
        /\ pre[ret.index] = key
        /\ moves = <<>>
        /\ buf = pre
        /\ LET again == insert_decision(key, buf, length, cap)
           IN  /\ again.res = ret.res
               /\ again.index = ret.index
               /\ again.added = 0
               /\ again.count = 0

C5_Witness ==
    /\ pc = "returned"
    /\ SortedAsc(pre, length)
    /\ key \in Elems(pre, length)
    /\ length = cap
    /\ length >= 3
    /\ ret.res = "Ok"
    /\ ret.added = 0
    /\ ret.index > 0

\* C6: for a key the sorted array does not hold, aprox_bsearch answers
\* OutsideIndex with index = length when the key is greater than every
\* element, and an AproxMatch index is below length.
C6_OutcomeClassification ==
    (InCall /\ SortedAsc(pre, length) /\ key \notin Elems(pre, length)) =>
        /\ (\A i \in 0..(length - 1) : pre[i] < key) =>
               /\ aprox.result = "OutsideIndex"
               /\ aprox.index = length
        /\ aprox.result = "AproxMatch" => aprox.index < length

\* The copy_f calls of a shift that opens slot i in an array of n elements.
ShiftMoves(i, n) == [m \in 1..(n - i) |-> <<n - m, n - m + 1>>]

\* C7: inserting an absent key at index i with length < capacity, the calls
\* of copy_f are (length-1 -> length), (length-2 -> length-1), ...,
\* (i -> i+1), in that order and no others (none when i = length); on
\* return slots 0..i hold what they held, slot j+1 holds what slot j held
\* for every j in i..length-1, and every old element is still in the array.
C7_ShiftOrderAndEffect ==
    (InCall /\ SortedAsc(pre, length) /\ length < cap
            /\ key \notin Elems(pre, length)) =>
        LET i == aprox.index
            all == ShiftMoves(i, length)
        IN  /\ i <= length
            /\ Len(moves) <= Len(all)
            /\ moves = SubSeq(all, 1, Len(moves))
            /\ pc = "shift" => Len(moves) < Len(all)
            /\ pc = "returned" =>
                   /\ ret = [res |-> "Ok", index |-> i, added |-> 1]
                   /\ moves = all
                   /\ \A j \in 0..i : buf[j] = pre[j]
                   /\ \A j \in i..(length - 1) : buf[j + 1] = pre[j]
                   /\ Elems(pre, length) \subseteq Elems(buf, length + 1)

C7_Witness ==
    /\ pc = "returned"
    /\ SortedAsc(pre, length)
    /\ length < cap
    /\ key \notin Elems(pre, length)
    /\ aprox.index > 0
    /\ Len(moves) >= 2
    /\ moves[1] = <<length - 1, length>>

\* C8: on any array, sorted or not, the loop of aprox_bsearch compares at
\* the indices bsearch compares at, in the same order; bsearch returns an
\* index other than the sentinel exactly when aprox_bsearch answers
\* ExactMatchIndex with that index, and the sentinel exactly when it answers
\* AproxMatch or OutsideIndex.
C8_SearchesConsistent ==
    obs.valid =>
        LET a == aprox_bsearch(obs.key, buf, length)
        IN  /\ a.probes = obs.probes
            /\ obs.index # obs.not_found_value <=>
                   (a.result = "ExactMatchIndex" /\ a.index = obs.index)
            /\ obs.index = obs.not_found_value <=>
                   a.result \in {"AproxMatch", "OutsideIndex"}

C8_Witness ==
    /\ obs.valid
    /\ ~SortedAsc(buf, length)
    /\ Len(obs.probes) >= 2
    /\ obs.index # obs.not_found_value
    /\ aprox_bsearch(obs.key, buf, length).result = "ExactMatchIndex"

\* A bsearch of the array as it is misses a key the caller holds in it.
Missed ==
    /\ obs.valid
    /\ obs.key \in written
    /\ obs.index = obs.not_found_value

\* C9 as stated: a key the array held before the call can be missed only by
\* a bsearch that runs between two copy_f calls of a shift; with each
\* sorted_array_insert call atomic (a reader sees the array only before a
\* call or after its return) no bsearch misses one.
C9_AtomicCallNeverMisses ==
    Missed => pc = "shift"

\* C9 amended: a held key is missed only inside the window from a call's
\* second copy_f to the caller's write of the key and of the length; with
\* the call and that write together atomic no bsearch misses one.
C9_SerializedCallAndWriteNeverMisses ==
    Missed => /\ pc \in {"shift", "returned"}
              /\ Len(moves) >= 2

C9_Witness ==
    /\ Missed
    /\ pc = "shift"
    /\ count > 0
    /\ Len(moves) >= 2
    /\ obs.key \in Elems(pre, length)
    /\ obs.key \notin Elems(buf, length)

\* C10: on any array with length <= capacity, bsearch and aprox_bsearch
\* (loop and final re-comparison) call the comparator only with an index
\* below length, and sorted_array_insert calls copy_f only with
\* i <= source <= length-1 and destination = source+1 <= length < capacity;
\* count and target_index never wrap below 0.
C10_IndicesInRange ==
    /\ length <= cap
    /\ obs.valid =>
           \A n \in 1..Len(obs.probes) : obs.probes[n] < length
    /\ InCall =>
           /\ \A n \in 1..Len(aprox.probes) : aprox.probes[n] < length
           /\ \A n \in 1..Len(aprox.recompare) : aprox.recompare[n] < length
           /\ length = 0 => aprox.probes = <<>> /\ aprox.recompare = <<>>
           /\ aprox.index <= length
           /\ \A n \in 1..Len(moves) :
                  /\ aprox.index <= moves[n][1]
                  /\ moves[n][1] <= length - 1
                  /\ moves[n][2] = moves[n][1] + 1
                  /\ moves[n][2] <= length
                  /\ length < cap
    /\ count <= length
    /\ target_index <= length
    /\ pc = "shift" =>
           /\ aprox.index <= target_index
           /\ target_index <= length - 1
           /\ count = target_index - aprox.index + 1

C10_Witness ==
    /\ pc = "returned"
    /\ ~SortedAsc(pre, length)
    /\ aprox.index = 0
    /\ Len(moves) >= 3
    /\ moves[Len(moves)] = <<0, 1>>
    /\ target_index = 0
====
